---- MODULE Spec2Model ----
(***************************************************************************)
(* RingCT signing and verification (src/src/ringct_material.rs).           *)
(*                                                                         *)
(* Scalars are the integers modulo a small prime; a group point is the    *)
(* triple <<g, h, u>> of its coordinates over three generators with no    *)
(* known relation: G1 (the group generator), H (the second Pedersen base) *)
(* and U (the base hash_to_curve lands on).  Indices are 0-based as in    *)
(* the source; the sequence position of index i is i + 1.                 *)
(***************************************************************************)
EXTENDS Integers, Sequences, FiniteSets, TLC

\* ------------------------------------------------------------------ bounds
MaxInputs == 2
MaxDecoys == 1
MaxOutputs == 2

\* --------------------------------------------------------- scalar field
\* Order of the scalar field (blstrs::Scalar), scaled down to a small prime.
FieldOrder == 5

Scalars == 0 .. (FieldOrder - 1)

SAdd(a, b) == (a + b) % FieldOrder

SSub(a, b) == (a - b + FieldOrder) % FieldOrder

SMul(a, b) == (a * b) % FieldOrder

\* .sum::<Scalar>() of a sequence of scalars
RECURSIVE SSum(_)
SSum(s) == IF s = <<>> THEN 0 ELSE SAdd(Head(s), SSum(Tail(s)))

\* ---------------------------------------------------------------- group
Points == Scalars \X Scalars \X Scalars

\* G1Projective::identity()
PointId == <<0, 0, 0>>

\* G1Projective::generator()
G1 == <<1, 0, 0>>

\* a G1Affine value that is not a point of the curve
OffCurve == <<FieldOrder, FieldOrder, FieldOrder>>

\* G1Affine::is_on_curve
IsOnCurve(P) == P \in Points

PAdd(P, Q) == <<SAdd(P[1], Q[1]), SAdd(P[2], Q[2]), SAdd(P[3], Q[3])>>

PSub(P, Q) == <<SSub(P[1], Q[1]), SSub(P[2], Q[2]), SSub(P[3], Q[3])>>

PMul(P, s) == <<SMul(P[1], s), SMul(P[2], s), SMul(P[3], s)>>

\* .sum::<G1Projective>() of a sequence of points
RECURSIVE PSum(_)
PSum(s) == IF s = <<>> THEN PointId ELSE PAdd(Head(s), PSum(Tail(s)))

\* to_compressed: the injective byte encoding of a point
Compress(P) == <<P[1], P[2], P[3]>>

\* --------------------------------------------------------------- hashing
DigestSpace == 8

\* Sha3::v256 over the concatenated chunks: update() absorbs, finalize()
\* squeezes a digest of DigestSpace values.
RECURSIVE Absorb(_, _)
Absorb(st, bytes) ==
    IF bytes = <<>> THEN st
    ELSE Absorb((st * st * 3 + st * 7 + Head(bytes) * 11 + 5) % 251, Tail(bytes))

Sha3(bytes) == (Absorb(17, bytes) \div 3) % DigestSpace

\* Scalar::from_bytes_le: None when the value is not below the field order
RECURSIVE RehashLoop(_)
RehashLoop(hash) ==
    IF hash < FieldOrder THEN hash ELSE RehashLoop(Sha3(<<hash>>))

\* hash_to_scalar(material): hash all chunks, rehash the digest until it is
\* a canonical scalar.
hash_to_scalar(material) == RehashLoop(Sha3(material))

\* c_hash(msg, l1, l2, r1)
c_hash(msg, l1, l2, r1) ==
    hash_to_scalar(msg \o Compress(l1) \o Compress(l2) \o Compress(r1))

\* hash_to_curve(p): a point with no known relation to G1 and H, never the
\* identity.
hash_to_curve(p) ==
    <<0, 0, 1 + (Absorb(29, Compress(p)) % (FieldOrder - 1))>>

\* ------------------------------------------------------ Pedersen commitments
\* second Pedersen base, independent of G1
PedersenH == <<0, 1, 0>>

\* PedersenCommitter::commit(value, blinding) = value*G + blinding*H; the
\* committer is not part of the source tree and is taken from spec.md 4.2
commit(value, blinding) == PAdd(PMul(G1, value), PMul(PedersenH, blinding))

\* PedersenCommitter::from_reveal(revealed)
from_reveal(revealed) == commit(revealed.value, revealed.blinding)

\* ------------------------------------------------------------ true inputs
\* TrueInput::public_key
public_key(input) == PMul(G1, input.secret_key)

\* TrueInput::key_image: I = x * Hp(P)
key_image(input) == PMul(hash_to_curve(public_key(input)), input.secret_key)

\* ------------------------------------------------------------ randomness
\* rng.next_u32(): the first draw of the stream
NextU32(seed) == seed.u32

\* Scalar::random(&mut rng): the k-th draw of the stream (k >= 1)
ScalarRandom(seed, k) == (seed.a + seed.b * k) % FieldOrder

\* ------------------------------------------------------------- sequences
\* Vec::insert(i, x) with a 0-based index
InsertAt(s, i, x) == SubSeq(s, 1, i) \o <<x>> \o SubSeq(s, i + 1, Len(s))

\* 0-based indexing of a Vec
At(s, i) == s[i + 1]

Last(s) == s[Len(s)]

\* ---------------------------------------------------- ringct_mlsag_sign
\* One link of the challenge chain: the challenge that follows row n, from
\* the response pair rn = <<r0, r1>>, the row keys = <<P, Q>>, the key image
\* and the challenge cn of row n.
ChainHash(msg, rn, keys, image, cn) ==
    c_hash(msg,
           PAdd(PMul(G1, rn[1]), PMul(keys[1], cn)),
           PAdd(PMul(G1, rn[2]), PMul(keys[2], cn)),
           PAdd(PMul(hash_to_curve(keys[1]), rn[1]), PMul(image, cn)))

\* for offset in 1..ring.len(): c[(n + 1) % len] = c_hash(...) with
\* n = (pi + offset) % len; c is indexed 0 .. len-1.
RECURSIVE SignChain(_, _, _, _, _, _, _)
SignChain(msg, ring, r, image, pi, c, offset) ==
    IF offset >= Len(ring) THEN c
    ELSE LET n == (pi + offset) % Len(ring)
             nxt == (n + 1) % Len(ring)
         IN  SignChain(msg, ring, r, image, pi,
                       [c EXCEPT ![nxt] = ChainHash(msg, At(r, n), At(ring, n), image, c[n])],
                       offset + 1)

\* The sanity assertions after the chain (lines 278-321).  Those that compare
\* a value with the same expression spelled out (280-287, 296-311, 314-321)
\* cannot fail; the ones that depend on the ring are kept.
MlsagAsserts(input, secret_keys, alpha, c_pi, row, image) ==
    IF PMul(G1, secret_keys[1]) # row[1] THEN "assert278"
    ELSE IF PMul(G1, secret_keys[2]) # row[2] THEN "assert279"
    ELSE IF PAdd(PMul(G1, SSub(alpha[1], SMul(c_pi, secret_keys[1]))), PMul(row[1], c_pi))
                # PMul(G1, alpha[1]) THEN "assert288"
    ELSE IF PAdd(PMul(G1, SSub(alpha[2], SMul(c_pi, secret_keys[2]))), PMul(row[2], c_pi))
                # PMul(G1, alpha[2]) THEN "assert292"
    ELSE IF PMul(hash_to_curve(row[1]), secret_keys[1]) # image THEN "assert313"
    ELSE "ok"

\* ringct_mlsag_sign(msg, input, revealed_pseudo_commitment, pi, ring, rng):
\* `first` is the index of the next draw of the random stream.
ringct_mlsag_sign(msg, input, revealed_pseudo_commitment, pi, ring, seed, first) ==
    LET len == Len(ring)
        secret_keys == <<input.secret_key,
                         SSub(input.revealed_commitment.blinding,
                              revealed_pseudo_commitment.blinding)>>
        image == key_image(input)
        alpha == <<ScalarRandom(seed, first), ScalarRandom(seed, first + 1)>>
        r0 == [n \in 1 .. len |->
                 <<ScalarRandom(seed, first + 2 * n), ScalarRandom(seed, first + 2 * n + 1)>>]
        c0 == [n \in 0 .. (len - 1) |-> 0]
        c1 == [c0 EXCEPT ![(pi + 1) % len] =
                 c_hash(msg, PMul(G1, alpha[1]), PMul(G1, alpha[2]),
                        PMul(hash_to_curve(At(ring, pi)[1]), alpha[1]))]
        c == SignChain(msg, ring, r0, image, pi, c1, 1)
        r == [r0 EXCEPT ![pi + 1] = <<SSub(alpha[1], SMul(c[pi], secret_keys[1])),
                                      SSub(alpha[2], SMul(c[pi], secret_keys[2]))>>]
        checks == MlsagAsserts(input, secret_keys, alpha, c[pi], At(ring, pi), image)
    IN  IF commit(0, secret_keys[2]) # At(ring, pi)[2]
        THEN [status |-> "assert247", draws |-> 0]
        ELSE IF checks # "ok"
        THEN [status |-> checks, draws |-> 2 + 2 * len]
        ELSE [status |-> "ok", draws |-> 2 + 2 * len,
              c0 |-> c[0], r |-> r, key_image |-> image, ring |-> ring]

\* ---------------------------------------------------------- RingCT::sign
\* take(outputs.len() - 1) on usize: a debug build panics on the underflow of
\* an empty list, a release build wraps and takes nothing.
TakeCount(outputs, build) ==
    IF Len(outputs) > 0 THEN Len(outputs) - 1
    ELSE IF build = "debug" THEN -1 ELSE 0

\* the correction with the two sums added instead of subtracted
output_blinding_correction_added(pseudo_blindings, so_far) ==
    SAdd(SSum(pseudo_blindings), SSum(so_far))

\* output_blinding_correction: sum of the pseudo blindings minus the sum of
\* the blindings drawn so far for the outputs.
output_blinding_correction(pseudo_blindings, so_far) ==
    SSub(SSum(pseudo_blindings), SSum(so_far))

\* the adjusted ring of input m (0-based): ring[n] =
\* (public_keys[n][m], commitments[n][m] - pseudo_commitments[m])
AdjustedRing(public_keys, commitments, pseudo_commitments, m) ==
    [n \in 1 .. Len(public_keys) |->
        <<At(public_keys[n], m), PSub(At(commitments[n], m), At(pseudo_commitments, m))>>]

\* for (m, input) in true_inputs: sign ring m and push the parts; stops at
\* the first failed assertion.  acc holds c0s, rs, images, rings so far.
RECURSIVE SignInputs(_, _, _, _, _, _, _, _, _)
SignInputs(msg, true_inputs, revealed_pseudo, public_keys, commitments, pseudo_commitments, pi, seed, acc) ==
    LET m == Len(acc.c0s)
    IN  IF m >= Len(true_inputs) THEN acc
        ELSE LET ring == AdjustedRing(public_keys, commitments, pseudo_commitments, m)
                 mlsag_sig == ringct_mlsag_sign(msg, At(true_inputs, m), At(revealed_pseudo, m),
                                                pi, ring, seed, acc.draws)
             IN  IF mlsag_sig.status # "ok"
                 THEN [acc EXCEPT !.status = mlsag_sig.status,
                                  !.failed_ring = ring,
                                  !.draws = acc.draws + mlsag_sig.draws]
                 ELSE SignInputs(msg, true_inputs, revealed_pseudo, public_keys, commitments,
                                 pseudo_commitments, pi, seed,
                                 [acc EXCEPT !.c0s = Append(@, mlsag_sig.c0),
                                             !.rs = Append(@, mlsag_sig.r),
                                             !.images = Append(@, mlsag_sig.key_image),
                                             !.rings = Append(@, mlsag_sig.ring),
                                             !.draws = acc.draws + mlsag_sig.draws])

NoSig == [c0 |-> <<>>, r |-> <<>>, key_images |-> <<>>]

\* What an aborted sign leaves behind: the panic site, the number of draws
\* taken from the rng and the steps done before the panic.
Aborted(status, draws, steps) ==
    [status |-> status, draws |-> draws, steps |-> steps, pi |-> -1,
     sig |-> NoSig, rings |-> <<>>, failed_ring |-> <<>>,
     pseudo_commitments |-> <<>>, output_commitments |-> <<>>]

\* the key images pushed in front of the earlier ones
SignedImagesReversed(acc, pi, pseudo_commitments, output_commitments, steps) ==
    [status |-> acc.status,
     draws |-> acc.draws,
     steps |-> steps,
     pi |-> pi,
     sig |-> IF acc.status = "ok"
             THEN [c0 |-> acc.c0s, r |-> acc.rs,
                   key_images |-> [m \in 1 .. Len(acc.images) |->
                                      acc.images[Len(acc.images) + 1 - m]]]
             ELSE NoSig,
     rings |-> IF acc.status = "ok" THEN acc.rings ELSE <<>>,
     failed_ring |-> acc.failed_ring,
     pseudo_commitments |-> pseudo_commitments,
     output_commitments |-> output_commitments]

\* let sig = RingCTSignature { c0: c0s, r: rs, key_images: images }; (sig, rings)
Signed(acc, pi, pseudo_commitments, output_commitments, steps) ==
    [status |-> acc.status,
     draws |-> acc.draws,
     steps |-> steps,
     pi |-> pi,
     sig |-> IF acc.status = "ok"
             THEN [c0 |-> acc.c0s, r |-> acc.rs, key_images |-> acc.images]
             ELSE NoSig,
     rings |-> IF acc.status = "ok" THEN acc.rings ELSE <<>>,
     failed_ring |-> acc.failed_ring,
     pseudo_commitments |-> pseudo_commitments,
     output_commitments |-> output_commitments]

\* assert_eq!(decoy_inputs.len(), self.true_inputs.len()) fails for a row
RaggedRows(true_inputs, decoy_inputs) ==
    \E n \in 1 .. Len(decoy_inputs) : Len(decoy_inputs[n]) # Len(true_inputs)

\* the balance assertion left out
BalanceNotAsserted(pseudo_commitments, output_commitments) == TRUE

\* assert_eq!(sum of pseudo commitments, sum of output commitments)
BalanceAsserted(pseudo_commitments, output_commitments) ==
    PSum(pseudo_commitments) = PSum(output_commitments)

\* RingCT::sign from the draw of pi on (lines 97-227)
SignFromPi(true_inputs, decoy_inputs, outputs, msg, seed, build) ==
    LET M == Len(true_inputs)
        K == Len(outputs)
        ring_size == Len(decoy_inputs) + 1
        pi == NextU32(seed) % ring_size
        public_keys ==
            InsertAt([n \in 1 .. Len(decoy_inputs) |->
                        [j \in 1 .. Len(decoy_inputs[n]) |-> decoy_inputs[n][j].public_key]],
                     pi, [m \in 1 .. M |-> public_key(true_inputs[m])])
        commitments ==
            InsertAt([n \in 1 .. Len(decoy_inputs) |->
                        [j \in 1 .. Len(decoy_inputs[n]) |-> decoy_inputs[n][j].commitment]],
                     pi, [m \in 1 .. M |-> from_reveal(true_inputs[m].revealed_commitment)])
        revealed_pseudo_commitments ==
            [m \in 1 .. M |-> [value |-> true_inputs[m].revealed_commitment.value,
                               blinding |-> ScalarRandom(seed, m)]]
        taken == TakeCount(outputs, build)
        first_outputs ==
            [k \in 1 .. taken |-> [value |-> outputs[k].amount,
                                   blinding |-> ScalarRandom(seed, M + k)]]
        correction ==
            output_blinding_correction(
                [m \in 1 .. M |-> revealed_pseudo_commitments[m].blinding],
                [k \in 1 .. taken |-> first_outputs[k].blinding])
        revealed_output_commitments ==
            Append(first_outputs, [value |-> Last(outputs).amount, blinding |-> correction])
        pseudo_commitments == [m \in 1 .. M |-> from_reveal(revealed_pseudo_commitments[m])]
        output_commitments ==
            [k \in 1 .. K |-> from_reveal(revealed_output_commitments[k])]
        prepared == <<"check_rows", "draw_pi", "public_keys", "commitments",
                      "pseudo_blindings">>
        signed ==
            SignInputs(msg, true_inputs, revealed_pseudo_commitments, public_keys,
                       commitments, pseudo_commitments, pi, seed,
                       [status |-> "ok", draws |-> 1 + M + taken, failed_ring |-> <<>>,
                        c0s |-> <<>>, rs |-> <<>>, images |-> <<>>, rings |-> <<>>])
    IN  IF taken < 0
        THEN [Aborted("overflow", 1 + M, prepared) EXCEPT !.pi = pi]
        ELSE IF K = 0
        THEN [Aborted("no_outputs", 1 + M, Append(prepared, "output_blindings"))
                EXCEPT !.pi = pi]
        ELSE IF ~BalanceAsserted(pseudo_commitments, output_commitments)
        THEN [Aborted("balance", 1 + M + taken,
                      prepared \o <<"output_blindings", "pseudo_commitments">>)
                EXCEPT !.pi = pi, !.pseudo_commitments = pseudo_commitments,
                       !.output_commitments = output_commitments]
        ELSE Signed(signed, pi, pseudo_commitments, output_commitments,
                    prepared \o <<"output_blindings", "pseudo_commitments", "mlsag">>)

\* sign with the outputs looked at before anything is drawn or computed
sign_outputs_first(true_inputs, decoy_inputs, outputs, msg, seed, build) ==
    IF RaggedRows(true_inputs, decoy_inputs)
    THEN Aborted("ragged", 0, <<>>)
    ELSE IF Len(outputs) = 0
    THEN Aborted("no_outputs", 0, <<"check_rows">>)
    ELSE SignFromPi(true_inputs, decoy_inputs, outputs, msg, seed, build)

\* sign with the row widths asserted after pi is drawn
sign_rows_late(true_inputs, decoy_inputs, outputs, msg, seed, build) ==
    IF RaggedRows(true_inputs, decoy_inputs)
    THEN Aborted("ragged", 1, <<"draw_pi">>)
    ELSE SignFromPi(true_inputs, decoy_inputs, outputs, msg, seed, build)

\* RingCT::sign(&self, msg, rng) -> (RingCTSignature, rings): the widths of
\* the decoy rows are asserted first.
sign(true_inputs, decoy_inputs, outputs, msg, seed, build) ==
    IF RaggedRows(true_inputs, decoy_inputs)
    THEN Aborted("ragged", 0, <<>>)
    ELSE SignFromPi(true_inputs, decoy_inputs, outputs, msg, seed, build)

\* ------------------------------------------------------------------ verify
\* the replay stopping one row early
RECURSIVE VerifyChainStopsEarly(_, _, _, _, _, _)
VerifyChainStopsEarly(msg, ring, r_m, image, n, out) ==
    IF n >= Len(ring) - 1 THEN out
    ELSE IF n >= Len(r_m) THEN [out EXCEPT !.status = "panic"]
    ELSE VerifyChainStopsEarly(msg, ring, r_m, image, n + 1,
                     [out EXCEPT !.cprime[(n + 1) % Len(ring)] =
                                     ChainHash(msg, At(r_m, n), At(ring, n), image, out.cprime[n]),
                                 !.hashes = @ + 1])

\* for (n, keys) in ring.iter().enumerate(): cprime[(n + 1) % len] = c_hash(..);
\* indexing sig.r[m][n] past the end panics.  out = [status, cprime, hashes].
RECURSIVE VerifyChain(_, _, _, _, _, _)
VerifyChain(msg, ring, r_m, image, n, out) ==
    IF n >= Len(ring) THEN out
    ELSE IF n >= Len(r_m) THEN [out EXCEPT !.status = "panic"]
    ELSE VerifyChain(msg, ring, r_m, image, n + 1,
                     [out EXCEPT !.cprime[(n + 1) % Len(ring)] =
                                     ChainHash(msg, At(r_m, n), At(ring, n), image, out.cprime[n]),
                                 !.hashes = @ + 1])

\* for (m, ring) in rings.iter().enumerate(): replay the chain of ring m from
\* sig.c0[m] and compare the challenge it closes on with sig.c0[m].
RECURSIVE VerifyRings(_, _, _, _, _)
VerifyRings(msg, sig, rings, m, hashes) ==
    IF m >= Len(rings) THEN [verdict |-> "true", hashes |-> hashes]
    ELSE LET ring == At(rings, m)
         IN  IF m >= Len(sig.c0) \/ Len(ring) = 0 \/ m >= Len(sig.r)
                \/ m >= Len(sig.key_images)
             THEN [verdict |-> "panic", hashes |-> hashes]
             ELSE LET cprime == [n \in 0 .. (Len(ring) - 1) |->
                                    IF n = 0 THEN At(sig.c0, m) ELSE 0]
                      out == VerifyChain(msg, ring, At(sig.r, m), At(sig.key_images, m), 0,
                                         [status |-> "ok", cprime |-> cprime, hashes |-> hashes])
                  IN  IF out.status = "panic"
                      THEN [verdict |-> "panic", hashes |-> out.hashes]
                      ELSE IF At(sig.c0, m) # out.cprime[0]
                      THEN [verdict |-> "false", hashes |-> out.hashes]
                      ELSE VerifyRings(msg, sig, rings, m + 1, out.hashes)

\* verify without the comparison of the two counts
verify_counts_unchecked(msg, sig, rings) ==
    IF \E k \in 1 .. Len(sig.key_images) : ~IsOnCurve(sig.key_images[k])
    THEN [verdict |-> "false", hashes |-> 0]
    ELSE VerifyRings(msg, sig, rings, 0, 0)

\* verify(msg, sig, rings) -> bool; "panic" is an index out of bounds.
verify(msg, sig, rings) ==
    IF \E k \in 1 .. Len(sig.key_images) : ~IsOnCurve(sig.key_images[k])
    THEN [verdict |-> "false", hashes |-> 0]
    ELSE IF Len(sig.key_images) # Len(rings)
    THEN [verdict |-> "false", hashes |-> 0]
    ELSE VerifyRings(msg, sig, rings, 0, 0)

\* ------------------------------------------------------------ the inputs
Msgs == {<<104>>, <<104, 105>>}

TrueInputSet ==
    {[secret_key |-> 1, revealed_commitment |-> [value |-> 1, blinding |-> 1]],
     [secret_key |-> 2, revealed_commitment |-> [value |-> 0, blinding |-> 2]],
     [secret_key |-> 0, revealed_commitment |-> [value |-> 1, blinding |-> 1]]}

DecoySet ==
    {[public_key |-> <<3, 0, 0>>, commitment |-> <<1, 2, 0>>],
     [public_key |-> PointId, commitment |-> PointId]}

Amounts == {0, 1}

\* a decoy row: one decoy repeated to the width of the true inputs, or a row
\* that is one decoy short
DecoyRows(width) ==
    {[j \in 1 .. width |-> d] : d \in DecoySet}
        \cup {[j \in 1 .. (width - 1) |-> [public_key |-> <<3, 0, 0>>, commitment |-> <<1, 2, 0>>]]}

OutputSet == {[public_key |-> <<2, 0, 0>>, amount |-> a] : a \in Amounts}

\* the streams of the caller's rng: a first u32 and an affine run of scalars
Seeds == [u32 : 0 .. MaxDecoys, a : 0 .. 2, b : 0 .. 1]

SeqsUpTo(S, lo, hi) == UNION {[1 .. n -> S] : n \in lo .. hi}

\* ---------------------------------------------------------------- state
VARIABLES
    true_inputs,    \* RingCT.true_inputs
    decoy_inputs,   \* RingCT.decoy_inputs
    outputs,        \* RingCT.outputs
    msg,            \* the message given to sign
    rng,            \* the random stream given to sign
    pc,             \* "ready", "signed", "aborted", "verified", "edited", "reverified"
    signed,         \* what sign returned or where it panicked
    vmsg,           \* verify's msg argument
    vsig,           \* verify's sig argument
    vrings,         \* verify's rings argument
    edits,          \* the changes made to (vmsg, vsig, vrings) since signing
    accepted,       \* verify's result on sign's own output
    verdict         \* verify's result on the edited arguments

vars == <<true_inputs, decoy_inputs, outputs, msg, rng, pc, signed,
          vmsg, vsig, vrings, edits, accepted, verdict>>

inputs == <<true_inputs, decoy_inputs, outputs, msg, rng>>

NotRun == [verdict |-> "none", hashes |-> 0]

Init ==
    /\ true_inputs \in SeqsUpTo(TrueInputSet, 1, MaxInputs)
    /\ decoy_inputs \in SeqsUpTo(DecoyRows(Len(true_inputs)), 0, MaxDecoys)
    /\ outputs \in SeqsUpTo(OutputSet, 0, MaxOutputs)
    /\ msg \in Msgs
    /\ rng \in Seeds
    /\ pc = "ready"
    /\ signed = Aborted("not_run", 0, <<>>)
    /\ vmsg = <<>>
    /\ vsig = NoSig
    /\ vrings = <<>>
    /\ edits = <<>>
    /\ accepted = NotRun
    /\ verdict = NotRun

\* the builds that differ on these arguments: only the subtraction on an empty
\* output list depends on the build
Builds == IF Len(outputs) = 0 THEN {"debug", "release"} ELSE {"release"}

\* ring_ct.sign(msg, rng)
Sign ==
    /\ pc = "ready"
    /\ \E build \in Builds :
          signed' = sign(true_inputs, decoy_inputs, outputs, msg, rng, build)
    /\ pc' = IF signed'.status = "ok" THEN "signed" ELSE "aborted"
    /\ vmsg' = msg
    /\ vsig' = signed'.sig
    /\ vrings' = signed'.rings
    /\ UNCHANGED <<inputs, edits, accepted, verdict>>

\* verify(msg, sig, rings) on what sign returned
Verify ==
    /\ pc = "signed"
    /\ accepted' = verify(vmsg, vsig, vrings)
    /\ pc' = "verified"
    /\ UNCHANGED <<inputs, signed, vmsg, vsig, vrings, edits, verdict>>

\* verify(msg, sig, rings) on the edited arguments
Reverify ==
    /\ pc = "edited"
    /\ verdict' = verify(vmsg, vsig, vrings)
    /\ pc' = "reverified"
    /\ UNCHANGED <<inputs, signed, vmsg, vsig, vrings, edits, accepted>>

\* ------------------------------------------------- changes to the arguments
\* The caller of verify holds (msg, sig, rings) as plain data and may hand
\* verify anything.  A value edit changes one value of an accepted signature;
\* a shape edit shortens a vector or puts in a value that is not a point.
Front(sq) == SubSeq(sq, 1, Len(sq) - 1)

CanEditValue == pc = "verified" /\ accepted.verdict = "true" /\ edits = <<>>

CanEditShape == pc = "verified" /\ edits = <<>>

\* one of the two counts may be changed once, also after a change to c0 or
\* after c0 or r was shortened
CanMiscount ==
    /\ pc \in {"verified", "edited"}
    /\ Len(vsig.key_images) = Len(vrings)
    /\ \A i \in 1 .. Len(edits) :
          edits[i].kind \in {"c0", "drop_c0", "drop_r_row", "drop_r_pair"}

Edited(kind, m, n) ==
    /\ edits' = Append(edits, [kind |-> kind, m |-> m, n |-> n])
    /\ pc' = "edited"
    /\ UNCHANGED <<inputs, signed, accepted, verdict>>

\* sig.c0[m] += 1
TamperC0 ==
    /\ CanEditValue
    /\ \E m \in 1 .. Len(vsig.c0) :
          /\ vsig' = [vsig EXCEPT !.c0[m] = SAdd(@, 1)]
          /\ Edited("c0", m - 1, 0)
    /\ UNCHANGED <<vmsg, vrings>>

\* sig.r[m][n].0 += 1 or sig.r[m][n].1 += 1
TamperR ==
    /\ CanEditValue
    /\ \E m \in 1 .. Len(vsig.r) : \E n \in 1 .. Len(vsig.r[m]) : \E i \in 1 .. 2 :
          /\ vsig' = [vsig EXCEPT !.r[m][n][i] = SAdd(@, 1)]
          /\ Edited(IF i = 1 THEN "r0" ELSE "r1", m - 1, n - 1)
    /\ UNCHANGED <<vmsg, vrings>>

\* sig.key_images[m] replaced by another input's key image or by another point
TamperKeyImage ==
    /\ CanEditValue
    /\ \E m \in 1 .. Len(vsig.key_images) :
       \E P \in ({vsig.key_images[k] : k \in 1 .. Len(vsig.key_images)}
                 \cup {PAdd(vsig.key_images[m], <<0, 0, 1>>)}) \ {vsig.key_images[m]} :
          /\ vsig' = [vsig EXCEPT !.key_images[m] = P]
          /\ Edited("key_image", m - 1, 0)
    /\ UNCHANGED <<vmsg, vrings>>

\* rings[m][n].0 or rings[m][n].1 replaced by another point
TamperRing ==
    /\ CanEditValue
    /\ \E m \in 1 .. Len(vrings) : \E n \in 1 .. Len(vrings[m]) : \E i \in 1 .. 2 :
          /\ vrings' = [vrings EXCEPT ![m][n][i] = PAdd(@, G1)]
          /\ Edited(IF i = 1 THEN "ring0" ELSE "ring1", m - 1, n - 1)
    /\ UNCHANGED <<vmsg, vsig>>

\* another message
TamperMsg ==
    /\ CanEditValue
    /\ \E other \in Msgs \ {vmsg} :
          /\ vmsg' = other
          /\ Edited("msg", 0, 0)
    /\ UNCHANGED <<vsig, vrings>>

\* sig.c0 one entry short
DropC0 ==
    /\ CanEditShape
    /\ Len(vsig.c0) > 0
    /\ vsig' = [vsig EXCEPT !.c0 = Front(@)]
    /\ Edited("drop_c0", 0, 0)
    /\ UNCHANGED <<vmsg, vrings>>

\* sig.r one row short
DropRRow ==
    /\ CanEditShape
    /\ Len(vsig.r) > 0
    /\ vsig' = [vsig EXCEPT !.r = Front(@)]
    /\ Edited("drop_r_row", 0, 0)
    /\ UNCHANGED <<vmsg, vrings>>

\* sig.r[m] one pair short
DropRPair ==
    /\ CanEditShape
    /\ \E m \in 1 .. Len(vsig.r) :
          /\ Len(vsig.r[m]) > 0
          /\ vsig' = [vsig EXCEPT !.r[m] = Front(@)]
          /\ Edited("drop_r_pair", m - 1, 0)
    /\ UNCHANGED <<vmsg, vrings>>

\* sig.key_images one entry short
DropKeyImage ==
    /\ CanMiscount
    /\ Len(vsig.key_images) > 0
    /\ vsig' = [vsig EXCEPT !.key_images = Front(@)]
    /\ Edited("drop_key_image", 0, 0)
    /\ UNCHANGED <<vmsg, vrings>>

\* sig.key_images[m] not on the curve
OffCurveKeyImage ==
    /\ CanEditShape
    /\ \E m \in 1 .. Len(vsig.key_images) :
          /\ vsig.key_images[m] # OffCurve
          /\ vsig' = [vsig EXCEPT !.key_images[m] = OffCurve]
          /\ Edited("off_curve", m - 1, 0)
    /\ UNCHANGED <<vmsg, vrings>>

\* rings one ring short
DropRing ==
    /\ CanMiscount
    /\ Len(vrings) > 0
    /\ vrings' = Front(vrings)
    /\ Edited("drop_ring", 0, 0)
    /\ UNCHANGED <<vmsg, vsig>>

\* rings[m] emptied
EmptyRing ==
    /\ CanEditShape
    /\ \E m \in 1 .. Len(vrings) :
          /\ vrings[m] # <<>>
          /\ vrings' = [vrings EXCEPT ![m] = <<>>]
          /\ Edited("empty_ring", m - 1, 0)
    /\ UNCHANGED <<vmsg, vsig>>

\* signing and verifying what was signed
Next ==
    \/ Sign
    \/ Verify

Spec == Init /\ [][Next]_vars

\* signing, verifying, then verifying again after a change to the arguments
NextEdits ==
    \/ Sign
    \/ Verify
    \/ Reverify
    \/ TamperC0
    \/ TamperR
    \/ TamperKeyImage
    \/ TamperRing
    \/ TamperMsg
    \/ DropC0
    \/ DropRRow
    \/ DropRPair
    \/ DropKeyImage
    \/ OffCurveKeyImage
    \/ DropRing
    \/ EmptyRing

\* ---------------------------------------------------------------- claims
M == Len(true_inputs)

K == Len(outputs)

Ragged == RaggedRows(true_inputs, decoy_inputs)

Balanced ==
    SSum([m \in 1 .. M |-> true_inputs[m].revealed_commitment.value])
        = SSum([k \in 1 .. K |-> outputs[k].amount])

WellFormed == M >= 1 /\ ~Ragged /\ K >= 1 /\ Balanced

SignReturned == pc # "ready"

\* the inputs sign has a signature for: rectangular, with an output, balanced
InitEdits ==
    /\ true_inputs \in SeqsUpTo(TrueInputSet, 1, MaxInputs)
    /\ decoy_inputs \in SeqsUpTo(DecoyRows(Len(true_inputs)), 0, MaxDecoys)
    /\ ~Ragged
    /\ outputs \in SeqsUpTo(OutputSet, 1, MaxOutputs)
    /\ Balanced
    /\ Init

SpecEdits == InitEdits /\ [][NextEdits]_vars

\* the second secret key of input m (1-based): true blinding - pseudo blinding
X1(m) == SSub(true_inputs[m].revealed_commitment.blinding, ScalarRandom(rng, m))

\* C1: for every well-formed input, sign returns without failing an assertion
\* and verify accepts what it returned.
C1_Completeness ==
    (SignReturned /\ WellFormed) =>
        /\ signed.status = "ok"
        /\ (pc # "signed" => accepted.verdict = "true")

\* C3: the key images sign returns are a function of the secret keys alone:
\* key_images[m] = secret_key_m * Hp(secret_key_m * G), whatever the stream,
\* pi, the decoys, the outputs and the message are.
C3_KeyImageDeterminism ==
    (SignReturned /\ signed.status = "ok") =>
        signed.sig.key_images =
            [m \in 1 .. M |->
                PMul(hash_to_curve(PMul(G1, true_inputs[m].secret_key)),
                     true_inputs[m].secret_key)]

C3_Witness ==
    /\ pc = "verified"
    /\ M = 2
    /\ true_inputs[1].secret_key # true_inputs[2].secret_key
    /\ Len(decoy_inputs) = 1
    /\ signed.pi = 1
    /\ rng.b = 1

\* C4: with balanced amounts the sum of the pseudo commitments equals the sum
\* of the output commitments, so sign never fails the balance assertion.
C4_BalanceClosure ==
    (SignReturned /\ WellFormed) =>
        /\ signed.status # "balance"
        /\ Len(signed.pseudo_commitments) = M
        /\ Len(signed.output_commitments) = K
        /\ PSum(signed.pseudo_commitments) = PSum(signed.output_commitments)

C4_Witness ==
    /\ SignReturned
    /\ WellFormed
    /\ M = 2
    /\ K = 2
    /\ rng.b = 1
    /\ signed.status # "balance"

\* C5 as stated: with unbalanced amounts sign still returns a signature that
\* verify accepts.
C5_UnbalancedSigns ==
    (SignReturned /\ M >= 1 /\ ~Ragged /\ K >= 1 /\ ~Balanced) =>
        /\ signed.status = "ok"
        /\ (pc # "signed" => accepted.verdict = "true")

\* C5 amended: with unbalanced amounts sign fails its balance assertion, after
\* the pseudo commitments are built and before any ring is signed, and
\* returns no signature.
C5_UnbalancedAborts ==
    (SignReturned /\ M >= 1 /\ ~Ragged /\ K >= 1 /\ ~Balanced) =>
        /\ signed.status = "balance"
        /\ pc = "aborted"
        /\ signed.sig = NoSig
        /\ signed.rings = <<>>
        /\ signed.draws = M + K

C5_Witness ==
    /\ pc = "aborted"
    /\ ~Ragged
    /\ K = 2
    /\ ~Balanced
    /\ signed.status = "balance"

\* C6 as stated: with no outputs sign fails before pi is drawn, before any
\* blinding is sampled and before any public key or commitment is computed.
C6_EmptyOutputsFailFast ==
    (SignReturned /\ K = 0) =>
        /\ pc = "aborted"
        /\ signed.sig = NoSig
        /\ signed.draws = 0
        /\ \A i \in 1 .. Len(signed.steps) :
              signed.steps[i] \notin {"draw_pi", "public_keys", "commitments",
                                      "pseudo_blindings"}

\* C6 amended: with no outputs (and no ragged row) sign panics and returns no
\* signature, but only after it has drawn pi, computed the public keys and
\* commitments of the ring matrix and sampled the M pseudo blindings.
C6_EmptyOutputsFailLate ==
    (SignReturned /\ K = 0 /\ ~Ragged) =>
        /\ pc = "aborted"
        /\ signed.status \in {"overflow", "no_outputs"}
        /\ signed.sig = NoSig
        /\ signed.rings = <<>>
        /\ signed.draws = 1 + M
        /\ SubSeq(signed.steps, 1, 5) =
              <<"check_rows", "draw_pi", "public_keys", "commitments", "pseudo_blindings">>

C6_Witness ==
    /\ pc = "aborted"
    /\ K = 0
    /\ M = 2
    /\ Len(decoy_inputs) = 1
    /\ signed.status = "no_outputs"

\* C7: a decoy row whose width is not M makes sign fail before it draws any
\* randomness or computes any point, whatever the other arguments are.
C7_RaggedFailsFirst ==
    (SignReturned /\ Ragged) =>
        /\ pc = "aborted"
        /\ signed.status = "ragged"
        /\ signed.draws = 0
        /\ signed.steps = <<>>
        /\ signed.sig = NoSig
        /\ signed.rings = <<>>

C7_Witness ==
    /\ pc = "aborted"
    /\ Ragged
    /\ K = 0
    /\ signed.status = "ragged"

\* C8: verify returns false, without computing any challenge, whenever the
\* number of key images differs from the number of rings.
C8_MiscountRejected ==
    (pc = "reverified" /\ Len(vsig.key_images) # Len(vrings)) =>
        /\ verdict.verdict = "false"
        /\ verdict.hashes = 0

C8_Witness ==
    /\ pc = "reverified"
    /\ Len(edits) = 2
    /\ edits[1].kind = "drop_c0"
    /\ edits[2].kind = "drop_ring"
    /\ Len(vrings) = 1
    /\ verdict.verdict = "false"

\* C9: the ring handed to ringct_mlsag_sign has at index pi the pair
\* (x0*G, x1*G), so neither the assertion on commit(0, x1) nor the assertion
\* G*x1 == ring[pi].1 fails.
C9_RowPiOpening ==
    (SignReturned /\ WellFormed) =>
        /\ signed.status \notin {"assert247", "assert278", "assert279"}
        /\ \A m \in 1 .. Len(signed.rings) :
              At(signed.rings[m], signed.pi) =
                  <<PMul(G1, true_inputs[m].secret_key), PMul(G1, X1(m))>>
        /\ signed.failed_ring # <<>> =>
              At(signed.failed_ring, signed.pi)[2] =
                  PMul(G1, X1(Len(signed.rings) + 1))

\* The bytes c_hash absorbs in row n (0-based) of ring m (1-based) when the
\* chain of (ms, sg, rs) is replayed with challenge cn entering the row.
HashedBytes(ms, sg, rs, m, n, cn) ==
    LET rn == At(sg.r[m], n)
        keys == At(rs[m], n)
    IN  ms \o Compress(PAdd(PMul(G1, rn[1]), PMul(keys[1], cn)))
           \o Compress(PAdd(PMul(G1, rn[2]), PMul(keys[2], cn)))
           \o Compress(PAdd(PMul(hash_to_curve(keys[1]), rn[1]),
                            PMul(sg.key_images[m], cn)))

\* The replay of ring m from sg.c0[m]: for each row the challenge entering
\* it, the bytes hashed and the challenge they hash to.
RECURSIVE Rows(_, _, _, _, _)
Rows(ms, sg, rs, m, acc) ==
    IF Len(acc) >= Len(rs[m]) THEN acc
    ELSE LET cin == IF acc = <<>> THEN sg.c0[m] ELSE Last(acc).cout
             bytes == HashedBytes(ms, sg, rs, m, Len(acc), cin)
         IN  Rows(ms, sg, rs, m,
                  Append(acc, [cin |-> cin, bytes |-> bytes, cout |-> hash_to_scalar(bytes)]))

Replay(ms, sg, rs, m) == Rows(ms, sg, rs, m, <<>>)

\* the rings a value edit reaches: all of them for the message, else its own
EditedRings ==
    IF edits[1].kind = "msg" THEN 1 .. Len(vrings) ELSE {edits[1].m + 1}

\* No two different byte strings hashed at the same row of the replay of the
\* signature as signed and of the replay of the edited one hash to the same
\* challenge.
CollisionFree ==
    \A m \in EditedRings :
        LET honest == Replay(msg, signed.sig, signed.rings, m)
            edited == Replay(vmsg, vsig, vrings, m)
        IN  \A n \in 1 .. Len(vrings[m]) :
                honest[n].bytes # edited[n].bytes => honest[n].cout # edited[n].cout

ValueEdited ==
    /\ pc = "reverified"
    /\ Len(edits) = 1
    /\ edits[1].kind \in {"c0", "r0", "r1", "key_image", "ring0", "ring1", "msg"}

NoIdentityKey ==
    \A m \in 1 .. Len(signed.rings) : \A n \in 1 .. Len(signed.rings[m]) :
        signed.rings[m][n][1] # PointId

\* The cases collision-freeness does not cover: a ring point changed in a row
\* the zero challenge enters, a key image changed in a ring all of whose
\* challenges are zero, a changed c0 that its own chain closes on.
Excepted ==
    LET e == edits[1]
        rows == Replay(vmsg, vsig, vrings, e.m + 1)
    IN  CASE e.kind \in {"ring0", "ring1"} -> rows[e.n + 1].cin = 0
          [] e.kind = "key_image" -> \A n \in 1 .. Len(rows) : rows[n].cin = 0
          [] e.kind = "c0" -> Last(rows).cout = vsig.c0[e.m + 1]
          [] OTHER -> FALSE

C10_VerifyTotal ==
    pc = "reverified" => verdict.verdict \in {"true", "false"}

====
